---- MODULE Spec2Model ----
(***************************************************************************)
(* GoogleModel (node-zerox/src/models/google.ts): the adapter between the  *)
(* ModelInterface of zerox and the @google/generative-ai client.           *)
(*                                                                         *)
(* An adapter is constructed once (client, mode, model, llmParams) and     *)
(* getCompletion is then invoked on it.  Every invocation is an async      *)
(* function: it runs synchronously up to an await, is suspended there and  *)
(* is resumed when the awaited promise settles.  One action of the model   *)
(* is one such synchronous segment of the code.                            *)
(***************************************************************************)
EXTENDS Integers, Sequences, FiniteSets, TLC

(***************************************************************************)
(* Bounds of the model.                                                    *)
(***************************************************************************)
\* invocations of getCompletion that may be in flight at the same time
NumCalls == 2
\* longest vendor response text, in tokens
MaxTextLen == 2
\* largest token count the vendor reports
MaxTokens == 1

Calls == 1..NumCalls

(***************************************************************************)
(* JavaScript values.  An object is a function from its own keys to        *)
(* values; an optional property that is absent is not in the DOMAIN.       *)
(***************************************************************************)
Has(obj, key) == key \in DOMAIN obj

EmptyObject == [k \in {} |-> "undefined"]

\* { ...a, ...b }: own properties of a, then those of b, later ones win
Spread(a, b) ==
  [k \in (DOMAIN a) \cup (DOMAIN b) |-> IF k \in DOMAIN b THEN b[k] ELSE a[k]]

(***************************************************************************)
(* Property names, character by character, as convertKeysToSnakeCase sees  *)
(* them.                                                                   *)
(***************************************************************************)
K_temperature == <<"t","e","m","p","e","r","a","t","u","r","e">>
K_topP == <<"t","o","p","P">>
K_responseMimeType ==
  <<"r","e","s","p","o","n","s","e","M","i","m","e","T","y","p","e">>
K_responseSchema ==
  <<"r","e","s","p","o","n","s","e","S","c","h","e","m","a">>

LowerCase ==
  [c \in {"A","B","C","D","E","F","G","H","I","J","K","L","M","N","O","P","Q",
          "R","S","T","U","V","W","X","Y","Z"} |->
     CASE c = "A" -> "a" [] c = "B" -> "b" [] c = "C" -> "c" [] c = "D" -> "d"
       [] c = "E" -> "e" [] c = "F" -> "f" [] c = "G" -> "g" [] c = "H" -> "h"
       [] c = "I" -> "i" [] c = "J" -> "j" [] c = "K" -> "k" [] c = "L" -> "l"
       [] c = "M" -> "m" [] c = "N" -> "n" [] c = "O" -> "o" [] c = "P" -> "p"
       [] c = "Q" -> "q" [] c = "R" -> "r" [] c = "S" -> "s" [] c = "T" -> "t"
       [] c = "U" -> "u" [] c = "V" -> "v" [] c = "W" -> "w" [] c = "X" -> "x"
       [] c = "Y" -> "y" [] c = "Z" -> "z"]

\* camelCase -> snake_case: every upper-case letter becomes "_" and its
\* lower-case letter
RECURSIVE CamelToSnake(_)
CamelToSnake(key) ==
  IF key = <<>> THEN <<>>
  ELSE IF Head(key) \in DOMAIN LowerCase
       THEN <<"_", LowerCase[Head(key)]>> \o CamelToSnake(Tail(key))
       ELSE <<Head(key)>> \o CamelToSnake(Tail(key))

\* An optional value: <<>> when it is undefined or null, <<v>> when it is v.
Undefined == <<>>

Some(v) == <<v>>

\* convertKeysToSnakeCase(this.llmParams ?? null): null has no property to
\* spread; an object gives the object with every key translated
convertKeysToSnakeCase(obj) ==
  IF obj = Undefined THEN EmptyObject
  ELSE [k \in {CamelToSnake(j) : j \in DOMAIN obj[1]} |->
          obj[1][CHOOSE j \in DOMAIN obj[1] : CamelToSnake(j) = k]]

(***************************************************************************)
(* Prompt templates and the image encoder (collaborators of the adapter).  *)
(***************************************************************************)
SYSTEM_PROMPT_BASE == "SYSTEM_PROMPT_BASE"

CONSISTENCY_PROMPT(priorPage) == <<"CONSISTENCY_PROMPT", priorPage>>

EXTRACTION_PROMPT == "Extract schema data from the following image"

Base64(image) == <<"base64", image>>

TextPart(text) == [text |-> text]

ImagePart(base64Image) ==
  [inlineData |-> [data |-> base64Image, mimeType |-> "image/png"]]

(***************************************************************************)
(* JSON.parse on a text given as its tokens.  The grammar is the part of   *)
(* JSON made of null and arrays: value ::= null | [ ] | [ value ].         *)
(* A parsed value is <<"null">>, <<"array">> or <<"array", value>>.        *)
(***************************************************************************)
Tokens == {"[", "]", "null", "x"}

RECURSIVE ParseValue(_)
ParseValue(toks) ==
  IF toks = <<>> THEN [ok |-> FALSE, value |-> <<>>, rest |-> <<>>]
  ELSE IF Head(toks) = "null"
       THEN [ok |-> TRUE, value |-> <<"null">>, rest |-> Tail(toks)]
  ELSE IF Head(toks) = "["
       THEN IF Len(toks) >= 2 /\ toks[2] = "]"
            THEN [ok |-> TRUE, value |-> <<"array">>,
                  rest |-> Tail(Tail(toks))]
            ELSE LET inner == ParseValue(Tail(toks))
                 IN  IF inner.ok /\ inner.rest # <<>> /\ Head(inner.rest) = "]"
                     THEN [ok |-> TRUE, value |-> <<"array", inner.value>>,
                           rest |-> Tail(inner.rest)]
                     ELSE [ok |-> FALSE, value |-> <<>>, rest |-> <<>>]
  ELSE [ok |-> FALSE, value |-> <<>>, rest |-> <<>>]

\* JSON.parse(text) returns a value
JSONParses(text) ==
  LET r == ParseValue(text) IN r.ok /\ r.rest = <<>>

\* the value JSON.parse(text) returns when it returns
JSONParse(text) == ParseValue(text).value

(***************************************************************************)
(* x || 0 on an optional count of the usage metadata:                      *)
(* response.usageMetadata?.promptTokenCount || 0                           *)
(***************************************************************************)
OrZero(response, field) ==
  IF Has(response, "usageMetadata") /\ Has(response.usageMetadata, field)
     /\ response.usageMetadata[field] # 0
  THEN response.usageMetadata[field]
  ELSE 0

(***************************************************************************)
(* Errors.  An error object is its name and its message.                   *)
(***************************************************************************)
\* new Error(`Unsupported operation mode: ${this.mode}`)
UnsupportedModeError(mode) ==
  [name |-> "Error", message |-> <<"Unsupported operation mode: ", mode>>]

\* calling a looked-up value that is not callable
NotAFunctionError ==
  [name |-> "TypeError", message |-> <<"handler is not a function">>]

\* what JSON.parse throws on a text it cannot parse
SyntaxErrorOf(text) ==
  [name |-> "SyntaxError", message |-> <<"JSON.parse">> \o text]

\* what response.text() throws on a blocked response
ResponseError(response) ==
  [name |-> "GoogleGenerativeAIResponseError",
   message |-> <<"blocked", response.blocked>>]

\* rejections of generateContent
VendorErrors ==
  {[name |-> "GoogleGenerativeAIFetchError", message |-> <<m>>] :
     m \in {"fetch failed", "429 quota exceeded"}}

\* a throw of getGenerativeModel
SdkError ==
  [name |-> "GoogleGenerativeAIError", message |-> <<"getGenerativeModel">>]

\* rejections of encodeImageToBase64
EncodeError(image) == [name |-> "Error", message |-> <<"ENOENT", image>>]

(***************************************************************************)
(* Inputs: adapters, requests and vendor responses.                        *)
(***************************************************************************)
\* the keys of the modeHandlers literal
OperationModes == {"EXTRACTION", "OCR"}

\* keys every object literal inherits from Object.prototype
ObjectPrototypeKeys == {"constructor", "__proto__"}

\* mode values an adapter may be constructed with
Modes == OperationModes \cup ObjectPrototypeKeys \cup {"TABLE"}

LLMParams ==
  { [k \in {K_temperature, K_topP} |-> "0.5"],
    (K_responseMimeType :> "text/plain") @@ (K_responseSchema :> "schemaX") }

NewAdapter(apiKey, mode, model, llmParams) ==
  [client |-> [apiKey |-> apiKey], mode |-> mode, model |-> model,
   llmParams |-> llmParams]

Adapters ==
  {NewAdapter("key", mode, "gemini-1.5-flash", p) :
     mode \in Modes, p \in {Undefined} \cup {Some(q) : q \in LLMParams}}

ConcAdapters ==
  {NewAdapter("key", mode, "gemini-1.5-flash", Undefined) :
     mode \in OperationModes}

PriorPages == {"", "# Page 1"}

Schemas == {"schemaA", "schemaB"}

\* CompletionArgs: image, and the optional maintainFormat and priorPage
CompletionArgs(images) ==
  {[image |-> i] : i \in images}
  \cup {[image |-> i, maintainFormat |-> m] : i \in images, m \in BOOLEAN}
  \cup {[image |-> i, priorPage |-> p] : i \in images, p \in PriorPages}
  \cup {[image |-> i, maintainFormat |-> m, priorPage |-> p] :
          i \in images, m \in BOOLEAN, p \in PriorPages}

\* ExtractionArgs: image and schema
ExtractionArgs(images) ==
  {[image |-> i, schema |-> s] : i \in images, s \in Schemas}

Requests == CompletionArgs({"page1.png"}) \cup ExtractionArgs({"page1.png"})

ConcRequests ==
  { [image |-> "page1.png", maintainFormat |-> TRUE, priorPage |-> "# Page 1"],
    [image |-> "page2.png", maintainFormat |-> FALSE, priorPage |-> "# Page 1"],
    [image |-> "page2.png", schema |-> "schemaB"] }

RECURSIVE SeqsUpTo(_, _)
SeqsUpTo(S, n) ==
  IF n = 0 THEN {<<>>}
  ELSE LET shorter == SeqsUpTo(S, n - 1)
       IN  shorter \cup {Append(t, x) : t \in shorter, x \in S}

Texts == SeqsUpTo(Tokens, MaxTextLen)

UsageFields == {"promptTokenCount", "candidatesTokenCount"}

UsageMetadatas == UNION {[F -> 0..MaxTokens] : F \in SUBSET UsageFields}

\* a vendor response: its text and its optional usage metadata, or a blocked
\* response, whose text() throws
Responses ==
  {[text |-> t] : t \in Texts}
  \cup {[text |-> t, usageMetadata |-> u] : t \in Texts, u \in UsageMetadatas}
  \cup {[blocked |-> "SAFETY"]}

ConcResponses ==
  { [text |-> <<"null">>],
    [text |-> <<"x">>,
     usageMetadata |-> [promptTokenCount |-> 1, candidatesTokenCount |-> 1]],
    [text |-> <<"[", "]">>, usageMetadata |-> [promptTokenCount |-> 1]] }

(***************************************************************************)
(* State.                                                                  *)
(*   adapter      the fields of the GoogleModel object                     *)
(*   calls        per invocation of getCompletion: where it is suspended,  *)
(*                its argument, the calls it made on its collaborators,    *)
(*                and how it settled                                       *)
(*   promptParts  the promptParts arrays of the handlers                   *)
(*   console      per invocation, the console.error calls it made          *)
(***************************************************************************)
VARIABLES adapter, calls, promptParts, console

vars == <<adapter, calls, promptParts, console>>

IdleCall ==
  [pc |-> "idle", req |-> Undefined, handler |-> "none", models |-> <<>>,
   encodes |-> <<>>, sent |-> <<>>, resp |-> Undefined, result |-> Undefined,
   thrown |-> Undefined, rejected |-> Undefined]

(***************************************************************************)
(* getCompletion: the handler looked up for the adapter's mode.            *)
(* modeHandlers is an object literal, so a lookup also finds what the      *)
(* literal inherits from Object.prototype.                                 *)
(***************************************************************************)
\* variant: the handler is picked by the shape of the argument
DispatchOnShape(mode, params) ==
  IF Has(params, "schema") THEN "handleExtraction" ELSE "handleOCR"

Dispatch(mode, params) ==
  IF mode = "EXTRACTION" THEN "handleExtraction"
  ELSE IF mode = "OCR" THEN "handleOCR"
  ELSE IF mode \in ObjectPrototypeKeys THEN mode
  ELSE "undefined"

(***************************************************************************)
(* handleOCR and handleExtraction: the pieces of the handlers.             *)
(***************************************************************************)
\* generationConfig of handleOCR
OCRGenerationConfig(llmParams) == convertKeysToSnakeCase(llmParams)

\* variant: the caller's parameters are spread last, as given
FixedFirstConfig(llmParams, schema) ==
  Spread((K_responseMimeType :> "application/json")
           @@ (K_responseSchema :> schema),
         IF llmParams = Undefined THEN EmptyObject ELSE llmParams[1])

\* generationConfig of handleExtraction
ExtractionGenerationConfig(llmParams, schema) ==
  Spread(convertKeysToSnakeCase(llmParams),
         (K_responseMimeType :> "application/json")
           @@ (K_responseSchema :> schema))

\* the schema property of the argument
SchemaOf(params) == IF Has(params, "schema") THEN params.schema ELSE "undefined"

\* variant: priorPage && priorPage.length
IgnoresMaintainFormat(params) ==
  Has(params, "priorPage") /\ params.priorPage # ""

\* maintainFormat && priorPage && priorPage.length
NeedsConsistency(params) ==
  /\ Has(params, "maintainFormat") /\ params.maintainFormat
  /\ Has(params, "priorPage") /\ params.priorPage # ""

\* variant: the consistency instruction is put in front (unshift)
ConsistencyFirst(params) ==
  IF NeedsConsistency(params)
  THEN <<TextPart(CONSISTENCY_PROMPT(params.priorPage)),
         TextPart(SYSTEM_PROMPT_BASE)>>
  ELSE <<TextPart(SYSTEM_PROMPT_BASE)>>

\* promptParts of handleOCR when it awaits the encoded image
OCRPartsBeforeImage(params) ==
  IF NeedsConsistency(params)
  THEN <<TextPart(SYSTEM_PROMPT_BASE),
         TextPart(CONSISTENCY_PROMPT(params.priorPage))>>
  ELSE <<TextPart(SYSTEM_PROMPT_BASE)>>

\* promptParts of handleExtraction when it awaits the encoded image
ExtractionPartsBeforeImage == <<TextPart(EXTRACTION_PROMPT)>>

\* variant: one promptParts array kept by the adapter
SharedParts(c) == 1

\* the promptParts array invocation c pushes to: a local of the handler
PartsOwner(c) == c

\* the argument of generateContent
GenerateContentRequest(parts) ==
  [contents |-> <<[role |-> "user", parts |-> parts]>>]

\* variant: no default for a missing count
NoDefault(response, field) ==
  IF Has(response, "usageMetadata") /\ Has(response.usageMetadata, field)
  THEN response.usageMetadata[field]
  ELSE -1

\* a token count of the returned object
TokenCount(response, field) == OrZero(response, field)

\* the object handleOCR returns
CompletionResponse(response) ==
  [content |-> response.text,
   inputTokens |-> TokenCount(response, "promptTokenCount"),
   outputTokens |-> TokenCount(response, "candidatesTokenCount")]

\* the object handleExtraction returns
ExtractionResponse(response) ==
  [extracted |-> JSONParse(response.text),
   inputTokens |-> TokenCount(response, "promptTokenCount"),
   outputTokens |-> TokenCount(response, "candidatesTokenCount")]

\* variant: a text that is no JSON is not reported
BlockedOnly(handler, response) == Has(response, "blocked")

\* evaluating the returned object throws: response.text() throws on a blocked
\* response, JSON.parse on a text that is no JSON
ReturnThrows(handler, response) ==
  \/ Has(response, "blocked")
  \/ handler = "handleExtraction" /\ ~JSONParses(response.text)

\* what it throws
ReturnError(handler, response) ==
  IF Has(response, "blocked") THEN ResponseError(response)
  ELSE SyntaxErrorOf(response.text)

\* variant: the error is logged at two places
LogTwice(err) ==
  <<[message |-> "Error in Google completion", err |-> err],
    [message |-> "Error in Google completion", err |-> err]>>

\* the catch block: console.error("Error in Google completion", err)
CatchLog(err) == <<[message |-> "Error in Google completion", err |-> err]>>

\* the catch block: throw err
Rethrow(err) == err

\* an invocation settled by an error thrown outside every try block
Uncaught(call, err) ==
  [call EXCEPT !.pc = "failed", !.thrown = Some(err), !.rejected = Some(err)]

\* an invocation settled by the catch block
Caught(call, err) ==
  [call EXCEPT !.pc = "failed", !.thrown = Some(err),
               !.rejected = Some(Rethrow(err))]

\* an invocation settled by a return
Returned(call, value) ==
  [call EXCEPT !.pc = "returned", !.result = Some(value)]

(***************************************************************************)
(* Actions.                                                                *)
(***************************************************************************)
\* handleOCR / handleExtraction up to `await encodeImageToBase64(image)`:
\* getGenerativeModel, the text parts, the call of the encoder
EnterHandler(c, begun, params, config, parts, sdkOk) ==
  LET asked == [begun EXCEPT !.models =
                  Append(@, [generationConfig |-> config,
                             model |-> adapter.model])]
  IN  IF sdkOk
      THEN /\ calls' = [calls EXCEPT ![c] =
                          [asked EXCEPT !.pc = "encoding",
                                        !.encodes = Append(@, params.image)]]
           /\ promptParts' = [promptParts EXCEPT ![PartsOwner(c)] = parts]
      ELSE /\ calls' = [calls EXCEPT ![c] = Uncaught(asked, SdkError)]
           /\ UNCHANGED promptParts

\* getCompletion(params), up to its first await.  sdkOk: getGenerativeModel
\* returns (it may throw).
GetCompletion(c, params, sdkOk) ==
  /\ calls[c].pc = "idle"
  /\ LET handler == Dispatch(adapter.mode, params)
         begun == [IdleCall EXCEPT !.req = Some(params), !.handler = handler]
     IN  CASE handler = "undefined" ->
                /\ calls' = [calls EXCEPT ![c] =
                               Uncaught(begun, UnsupportedModeError(adapter.mode))]
                /\ UNCHANGED promptParts
           [] handler = "__proto__" ->
                \* Object.prototype is truthy and not callable
                /\ calls' = [calls EXCEPT ![c] =
                               Uncaught(begun, NotAFunctionError)]
                /\ UNCHANGED promptParts
           [] handler = "constructor" ->
                \* Object() returns a new empty object
                /\ calls' = [calls EXCEPT ![c] = Returned(begun, EmptyObject)]
                /\ UNCHANGED promptParts
           [] handler = "handleOCR" ->
                EnterHandler(c, begun, params,
                             OCRGenerationConfig(adapter.llmParams),
                             OCRPartsBeforeImage(params), sdkOk)
           [] handler = "handleExtraction" ->
                EnterHandler(c, begun, params,
                             ExtractionGenerationConfig(adapter.llmParams,
                                                        SchemaOf(params)),
                             ExtractionPartsBeforeImage, sdkOk)
  /\ UNCHANGED <<adapter, console>>

\* encodeImageToBase64 resolves: the image part is pushed and generateContent
\* is called
EncodeResolve(c) ==
  /\ calls[c].pc = "encoding"
  /\ LET parts == Append(promptParts[PartsOwner(c)],
                         ImagePart(Base64(calls[c].req[1].image)))
     IN  /\ promptParts' = [promptParts EXCEPT ![PartsOwner(c)] = parts]
         /\ calls' = [calls EXCEPT ![c].pc = "awaiting",
                                   ![c].sent =
                                      Append(@, GenerateContentRequest(parts))]
  /\ UNCHANGED <<adapter, console>>

\* encodeImageToBase64 rejects: the await is outside the try block
EncodeReject(c) ==
  /\ calls[c].pc = "encoding"
  /\ calls' = [calls EXCEPT ![c] =
                 Uncaught(@, EncodeError(calls[c].req[1].image))]
  /\ UNCHANGED <<adapter, promptParts, console>>

\* generateContent resolves with a response: the handler returns its object,
\* or the evaluation of that object throws into the catch block
GenerateResolve(c, response) ==
  /\ calls[c].pc = "awaiting"
  /\ LET got == [calls[c] EXCEPT !.resp = Some(response)]
     IN  IF ReturnThrows(got.handler, response)
         THEN LET err == ReturnError(got.handler, response)
              IN  /\ calls' = [calls EXCEPT ![c] = Caught(got, err)]
                  /\ console' = [console EXCEPT ![c] = @ \o CatchLog(err)]
         ELSE /\ calls' = [calls EXCEPT ![c] =
                             Returned(got,
                                      IF got.handler = "handleOCR"
                                      THEN CompletionResponse(response)
                                      ELSE ExtractionResponse(response))]
              /\ UNCHANGED console
  /\ UNCHANGED <<adapter, promptParts>>

\* generateContent rejects: the catch block logs and rethrows
GenerateReject(c, err) ==
  /\ calls[c].pc = "awaiting"
  /\ calls' = [calls EXCEPT ![c] = Caught(@, err)]
  /\ console' = [console EXCEPT ![c] = @ \o CatchLog(err)]
  /\ UNCHANGED <<adapter, promptParts>>

\* the caller takes the outcome; the adapter is used again
Settle(c) ==
  /\ calls[c].pc \in {"returned", "failed"}
  /\ calls' = [calls EXCEPT ![c] = IdleCall]
  /\ promptParts' = [promptParts EXCEPT ![c] = <<>>]
  /\ console' = [console EXCEPT ![c] = <<>>]
  /\ UNCHANGED adapter

(***************************************************************************)
(* Spec: one adapter of any construction, used for one page after another. *)
(***************************************************************************)
Start(adapters) ==
  /\ adapter \in adapters
  /\ calls = [c \in Calls |-> IdleCall]
  /\ promptParts = [c \in Calls |-> <<>>]
  /\ console = [c \in Calls |-> <<>>]

Init == Start(Adapters)

Next ==
  \/ \E params \in Requests, sdkOk \in BOOLEAN : GetCompletion(1, params, sdkOk)
  \/ EncodeResolve(1)
  \/ EncodeReject(1)
  \/ \E response \in Responses : GenerateResolve(1, response)
  \/ \E err \in VendorErrors : GenerateReject(1, err)
  \/ Settle(1)

Spec == Init /\ [][Next]_vars

(***************************************************************************)
(* ConcSpec: the orchestrator issues the page requests concurrently.       *)
(***************************************************************************)
ConcInit == Start(ConcAdapters)

ConcNext ==
  \E c \in Calls :
    \/ \E params \in ConcRequests : GetCompletion(c, params, TRUE)
    \/ EncodeResolve(c)
    \/ EncodeReject(c)
    \/ \E response \in ConcResponses : GenerateResolve(c, response)
    \/ \E err \in VendorErrors : GenerateReject(c, err)
    \/ Settle(c)

ConcSpec == ConcInit /\ [][ConcNext]_vars

(***************************************************************************)
(* Properties.                                                             *)
(***************************************************************************)
\* the parts of the one generateContent request of a call
SentParts(call) == call.sent[1].contents[1].parts

\* C1: an OCR request with maintainFormat = true and a non-empty priorPage
\* sends exactly [base instruction, consistency instruction built from that
\* priorPage, image]
C1_ConsistencyBetweenBaseAndImage ==
  \A c \in Calls :
    (/\ calls[c].handler = "handleOCR"
     /\ calls[c].sent # <<>>
     /\ Has(calls[c].req[1], "maintainFormat")
     /\ calls[c].req[1].maintainFormat
     /\ Has(calls[c].req[1], "priorPage")
     /\ calls[c].req[1].priorPage # "")
    => /\ Len(calls[c].sent) = 1
       /\ SentParts(calls[c]) =
            << [text |-> SYSTEM_PROMPT_BASE],
               [text |-> CONSISTENCY_PROMPT(calls[c].req[1].priorPage)],
               ImagePart(Base64(calls[c].req[1].image)) >>

C1_Witness ==
  \E c \in Calls :
    /\ calls[c].handler = "handleOCR"
    /\ calls[c].pc = "awaiting"
    /\ calls[c].req[1] = [image |-> "page1.png", maintainFormat |-> TRUE,
                          priorPage |-> "# Page 1"]
    /\ Len(SentParts(calls[c])) = 3

\* C2: an OCR request with maintainFormat = false sends exactly
\* [base instruction, image], whatever priorPage is
C2_NoConsistencyWithoutMaintainFormat ==
  \A c \in Calls :
    (/\ calls[c].handler = "handleOCR"
     /\ calls[c].sent # <<>>
     /\ Has(calls[c].req[1], "maintainFormat")
     /\ ~calls[c].req[1].maintainFormat)
    => /\ Len(calls[c].sent) = 1
       /\ SentParts(calls[c]) =
            << [text |-> SYSTEM_PROMPT_BASE],
               ImagePart(Base64(calls[c].req[1].image)) >>

C2_Witness ==
  \E c \in Calls :
    /\ calls[c].handler = "handleOCR"
    /\ calls[c].pc = "awaiting"
    /\ calls[c].req[1] = [image |-> "page1.png", maintainFormat |-> FALSE,
                          priorPage |-> "# Page 1"]
    /\ Len(SentParts(calls[c])) = 2

\* C3: with a mode that has no registered handler, getCompletion fails with
\* the unsupported-mode error, and has called neither getGenerativeModel nor
\* the image encoder nor generateContent
C3_UnsupportedModeRaises ==
  \A c \in Calls :
    (calls[c].pc # "idle" /\ adapter.mode \notin OperationModes)
    => /\ calls[c].pc = "failed"
       /\ calls[c].rejected = Some(UnsupportedModeError(adapter.mode))
       /\ calls[c].models = <<>>
       /\ calls[c].encodes = <<>>
       /\ calls[c].sent = <<>>

\* C4: in extraction, a response text that is no JSON makes the call fail
\* with the parse error, which is no vendor-call error, and no result is
\* returned
C4_MalformedResponseRaises ==
  \A c \in Calls :
    (/\ calls[c].handler = "handleExtraction"
     /\ calls[c].resp # Undefined
     /\ Has(calls[c].resp[1], "text")
     /\ ~JSONParses(calls[c].resp[1].text))
    => /\ calls[c].pc = "failed"
       /\ calls[c].result = Undefined
       /\ calls[c].rejected # Undefined
       /\ calls[c].rejected[1].name = "SyntaxError"
       /\ calls[c].rejected[1] \notin VendorErrors

C4_Witness ==
  \E c \in Calls :
    /\ calls[c].handler = "handleExtraction"
    /\ calls[c].resp # Undefined
    /\ Has(calls[c].resp[1], "text")
    /\ calls[c].resp[1].text = <<"[", "x">>
    /\ calls[c].pc = "failed"

\* C5: for an extraction request the generation configuration has
\* responseMimeType = application/json and responseSchema = the schema of the
\* request, whatever llmParams the adapter was constructed with
C5_StructuredOutputAlwaysRequested ==
  \A c \in Calls :
    (/\ calls[c].handler = "handleExtraction"
     /\ calls[c].models # <<>>
     /\ Has(calls[c].req[1], "schema"))
    => /\ Len(calls[c].models) = 1
       /\ Has(calls[c].models[1].generationConfig, K_responseMimeType)
       /\ calls[c].models[1].generationConfig[K_responseMimeType] =
            "application/json"
       /\ Has(calls[c].models[1].generationConfig, K_responseSchema)
       /\ calls[c].models[1].generationConfig[K_responseSchema] =
            calls[c].req[1].schema

C5_Witness ==
  \E c \in Calls :
    /\ calls[c].handler = "handleExtraction"
    /\ calls[c].models # <<>>
    /\ Has(calls[c].req[1], "schema")
    /\ adapter.llmParams # Undefined
    /\ Has(adapter.llmParams[1], K_responseMimeType)
    /\ Has(adapter.llmParams[1], K_responseSchema)
    /\ adapter.llmParams[1][K_responseSchema] # calls[c].req[1].schema

\* the count the result must carry for a field of the usage metadata
ExpectedCount(response, field) ==
  IF Has(response, "usageMetadata") /\ Has(response.usageMetadata, field)
  THEN response.usageMetadata[field]
  ELSE 0

\* C6: in both modes a response with a readable (for extraction: parseable)
\* text makes the call return, with or without usage metadata; a missing
\* count is 0 in the result, a present count is carried, both are naturals
C6_TokenCountsDefaultToZero ==
  \A c \in Calls :
    (/\ calls[c].handler \in {"handleOCR", "handleExtraction"}
     /\ calls[c].resp # Undefined
     /\ Has(calls[c].resp[1], "text")
     /\ (calls[c].handler = "handleOCR" \/ JSONParses(calls[c].resp[1].text)))
    => /\ calls[c].pc = "returned"
       /\ calls[c].rejected = Undefined
       /\ calls[c].result[1].inputTokens =
            ExpectedCount(calls[c].resp[1], "promptTokenCount")
       /\ calls[c].result[1].outputTokens =
            ExpectedCount(calls[c].resp[1], "candidatesTokenCount")
       /\ calls[c].result[1].inputTokens \in Nat
       /\ calls[c].result[1].outputTokens \in Nat

C6_Witness ==
  \E c \in Calls :
    /\ calls[c].handler = "handleExtraction"
    /\ calls[c].pc = "returned"
    /\ ~Has(calls[c].resp[1], "usageMetadata")
    /\ calls[c].result[1].inputTokens = 0
    /\ calls[c].result[1].outputTokens = 0

\* the errors the claim lists: unsupported mode, image encoding, vendor call,
\* response text, parse
ListedError(call, err) ==
  \/ err = UnsupportedModeError(adapter.mode)
  \/ err = EncodeError(call.req[1].image)
  \/ err \in VendorErrors
  \/ err.name \in {"GoogleGenerativeAIResponseError", "SyntaxError"}

\* C7 as stated: every error that makes getCompletion fail is logged exactly
\* once, and the caller receives that error object
C7_EveryErrorLoggedOnce ==
  \A c \in Calls :
    (calls[c].pc = "failed" /\ ListedError(calls[c], calls[c].thrown[1]))
    => /\ Len(console[c]) = 1
       /\ console[c][1].err = calls[c].thrown[1]
       /\ calls[c].rejected = calls[c].thrown

\* C7 amended: an error raised once generateContent has been called (vendor
\* call, response text, parse) is logged exactly once; an error raised before
\* (mode lookup, getGenerativeModel, image encoding) is not logged; the
\* caller always receives the error object that was raised
C7_CaughtErrorsLoggedOnce ==
  \A c \in Calls :
    calls[c].pc = "failed"
    => /\ calls[c].rejected = calls[c].thrown
       /\ IF calls[c].sent # <<>>
          THEN console[c] = << [message |-> "Error in Google completion",
                                err |-> calls[c].thrown[1]] >>
          ELSE console[c] = <<>>

C7_Witness ==
  \E c \in Calls :
    /\ calls[c].pc = "failed"
    /\ calls[c].thrown[1] \in VendorErrors
    /\ Len(console[c]) = 1

\* C8: an invocation calls generateContent at most once, and exactly once
\* when it returns a result
C8_OneGenerateContentCall ==
  \A c \in Calls :
    /\ Len(calls[c].sent) <= 1
    /\ calls[c].pc = "returned" => Len(calls[c].sent) = 1

\* C9: an adapter constructed in OCR mode runs handleOCR and one constructed
\* in EXTRACTION mode runs handleExtraction, whatever the argument looks like
C9_HandlerFixedByMode ==
  \A c \in Calls :
    calls[c].pc # "idle"
    => /\ adapter.mode = "OCR"
            => /\ calls[c].handler = "handleOCR"
               /\ calls[c].sent # <<>>
                    => SentParts(calls[c])[1] = [text |-> SYSTEM_PROMPT_BASE]
       /\ adapter.mode = "EXTRACTION"
            => /\ calls[c].handler = "handleExtraction"
               /\ calls[c].sent # <<>>
                    => SentParts(calls[c])[1] = [text |-> EXTRACTION_PROMPT]

C9_Witness ==
  \E c \in Calls :
    /\ adapter.mode = "OCR"
    /\ calls[c].pc = "awaiting"
    /\ Has(calls[c].req[1], "schema")
    /\ calls[c].handler = "handleOCR"

\* what a call sends and returns, as a function of its own argument and its
\* own response
OwnParts(call) ==
  IF call.handler = "handleExtraction"
  THEN << [text |-> EXTRACTION_PROMPT], ImagePart(Base64(call.req[1].image)) >>
  ELSE IF /\ Has(call.req[1], "maintainFormat") /\ call.req[1].maintainFormat
          /\ Has(call.req[1], "priorPage") /\ call.req[1].priorPage # ""
       THEN << [text |-> SYSTEM_PROMPT_BASE],
               [text |-> CONSISTENCY_PROMPT(call.req[1].priorPage)],
               ImagePart(Base64(call.req[1].image)) >>
       ELSE << [text |-> SYSTEM_PROMPT_BASE],
               ImagePart(Base64(call.req[1].image)) >>

OwnResult(call) ==
  IF call.handler = "handleExtraction"
  THEN [extracted |-> JSONParse(call.resp[1].text),
        inputTokens |-> ExpectedCount(call.resp[1], "promptTokenCount"),
        outputTokens |-> ExpectedCount(call.resp[1], "candidatesTokenCount")]
  ELSE [content |-> call.resp[1].text,
        inputTokens |-> ExpectedCount(call.resp[1], "promptTokenCount"),
        outputTokens |-> ExpectedCount(call.resp[1], "candidatesTokenCount")]

OwnOnly(c) ==
  /\ calls[c].sent # <<>>
       => calls[c].sent = <<GenerateContentRequest(OwnParts(calls[c]))>>
  /\ calls[c].pc = "returned"
       => calls[c].result = Some(OwnResult(calls[c]))

\* C10: under every interleaving of concurrent calls no step changes the
\* adapter, and what a call sent and returned is a function of its own
\* argument and its own vendor response
C10_ConcurrentCallsIndependent ==
  [][adapter' = adapter /\ \A c \in Calls : OwnOnly(c)']_vars

C10_Witness ==
  /\ calls[1].pc = "returned"
  /\ calls[2].pc = "awaiting"
  /\ calls[1].req # calls[2].req
  /\ calls[1].sent # calls[2].sent

====
